---- MODULE Spec2Model ----
(***************************************************************************)
(* ImagingColorLUT3D_linear of src/libImaging/ColorLUT.c as a state        *)
(* machine: one call of the transform, from argument validation through    *)
(* the row loop and the pixel loop to the return.                          *)
(***************************************************************************)
EXTENDS Integers, Sequences, FiniteSets, TLC

\* ------------------------------------------------------------------------
\* Fixed-point constants (ColorLUT.c:15-24)
PRECISION_BITS == 6
PRECISION_ROUNDING == 2 ^ (PRECISION_BITS - 1)
SCALE_BITS == 18
SCALE_MASK == 2 ^ SCALE_BITS - 1
SHIFT_BITS == 15

\* sizeof(__m128i): the width of the vector loads *(__m128i *) and
\* _mm_loadu_si128, in bytes
VecBytes == 16
\* bytes per pixel of an 8-bit image of 3 or 4 bands (UINT32 rowOut)
PixelBytes == 4
\* largest grid size of a table (ColorLUT.c:20)
MaxSize == 65

\* ------------------------------------------------------------------------
\* Bounds of the model
MaxX == 2
MaxY == 2

Byte == 0 .. 255
\* the pixels the input images are made of
PixelVals == { <<0, 0, 0, 255>>, <<255, 255, 255, 128>> }
\* the content of a separate output buffer before the call
OutFill == <<9, 9, 9, 9>>
\* the grids of the tables of Spec
GridSizes == { <<3, 2, 4>> }
\* the grid sizes a table may have (2 up to MaxSize)
AllSizes == 2 .. MaxSize
\* the grid sizes of SpecCorner
CornerSizes == { 2, MaxSize }
\* the values a table element stands for: 0 up to 255 << PRECISION_BITS
TableVals == 0 .. 255 * 2 ^ PRECISION_BITS
TypeVals == { "UINT8", "INT32" }
BandVals == 2 .. 4
TableChannelVals == 2 .. 5

VARIABLES
    table_channels,   \* argument table_channels
    sizes,            \* <<size1D, size2D, size3D>>
    tableKind,        \* the table passed: <<"identity">>, <<"invert">> or <<"flat", t>>
    inBuf, outBuf,    \* the storage of imIn and of imOut ("A" or "B"); equal when aliased
    im,               \* buffer -> [type, bands, xsize, ysize]
    mem,              \* buffer -> rows of pixels, a pixel is 4 bytes
    mem0,             \* mem when the call was made
    pc,               \* "call", "row", "pixel", "done", "fault"
    result,           \* "none", "imOut", "ValueError", "ModeError"
    section,          \* "idle", "entered", "left" (ImagingSectionEnter/Leave)
    x, y,             \* loop counters
    index,            \* the three used lanes of __m128i index
    idx,              \* int idx
    next_idx,         \* int next_idx
    rowReads,         \* byte offsets of the input row read by the last step
    tableLoads        \* element offsets of the table loaded by the last step

vars == << table_channels, sizes, tableKind, inBuf, outBuf, im, mem, mem0, pc,
           result, section, x, y, index, idx, next_idx, rowReads, tableLoads >>

\* ------------------------------------------------------------------------
\* Integer widths and the SSE operations the transform uses
Min(a, b) == IF a < b THEN a ELSE b
Max(a, b) == IF a > b THEN a ELSE b

ToInt16(v) == ((v + 32768) % 65536) - 32768

\* _mm_madd_epi16 on one 32-bit lane: the lane's two signed 16-bit halves
\* multiplied pairwise and added. The sum leaves 32 bits only when all four
\* halves are -32768; the second operand here is never negative.
madd_epi16(a_lo, a_hi, b_lo, b_hi) ==
    ToInt16(a_lo) * ToInt16(b_lo) + ToInt16(a_hi) * ToInt16(b_hi)

\* _mm_srai_epi32: arithmetic shift right
srai_epi32(v, n) == v \div (2 ^ n)

\* _mm_packs_epi32 and _mm_packus_epi16: signed and unsigned saturation
packs_epi32(v) == Max(-32768, Min(32767, v))
packus_epi16(v) == Max(0, Min(255, v))

\* ------------------------------------------------------------------------
\* The table: a flat array of table_channels * size1D * size2D * size3D
\* INT16 elements, channels first, then 1D, 2D, 3D (ColorLUT.c:66-70)
TableLen == table_channels * sizes[1] * sizes[2] * sizes[3]

\* nearest integer to n / d, for n >= 0 and d > 0
RoundDiv(n, d) == (2 * n + d) \div (2 * d)

\* the identity table: the element of channel c at node (i, j, k) is the
\* node's coordinate on axis c as a colour 0..255, scaled by 2^PRECISION_BITS
\* (a 4th channel holds the highest value)
IdentityAt(off) ==
    LET c == off % table_channels
        node == off \div table_channels
        coord == << node % sizes[1],
                    (node \div sizes[1]) % sizes[2],
                    node \div (sizes[1] * sizes[2]) >>
    IN  IF c >= 3 THEN 255 * 2 ^ PRECISION_BITS
        ELSE RoundDiv(coord[c + 1] * 255 * 2 ^ PRECISION_BITS, sizes[c + 1] - 1)

\* the inverting table: the highest value minus the identity table's
InvertAt(off) == 255 * 2 ^ PRECISION_BITS - IdentityAt(off)

\* table[off] for an offset inside the array
TableAt(off) ==
    CASE tableKind[1] = "identity" -> IdentityAt(off)
      [] tableKind[1] = "invert" -> InvertAt(off)
      [] OTHER -> tableKind[2]

\* ------------------------------------------------------------------------
\* Per-transform constants (ColorLUT.c:87-96)

\* (size - 1) / 255.0 * (1<<SCALE_BITS) converted to int: the conversion
\* truncates. (size-1) * 2^18 is no multiple of 255 for 1 <= size-1 <= 64, so
\* the exact quotient is at least 1/255 away from an integer and the double
\* rounds to the same side.
ScaleOfRounded(size) == (2 * (size - 1) * 2 ^ SCALE_BITS + 255) \div (2 * 255)

ScaleOf(size) == ((size - 1) * 2 ^ SCALE_BITS) \div 255

scale == << ScaleOf(sizes[1]), ScaleOf(sizes[2]), ScaleOf(sizes[3]) >>

size1D_2D == sizes[1] * sizes[2]

index_mul == << 1, sizes[1], size1D_2D >>

\* _mm_mullo_epi32(scale, _mm_cvtepu8_epi32(pixel)): lanes 0..2 (a byte times
\* a scale of a size up to MaxSize is below 2^24)
IndexOf(pixel) == [d \in 1 .. 3 |-> scale[d] * pixel[d]]

\* table_channels * the horizontal sum of madd(index_mul, index >> SCALE_BITS)
IdxOf(ind) ==
    table_channels *
               (  madd_epi16(index_mul[1] % 65536, index_mul[1] \div 65536,
                             (ind[1] \div 2 ^ SCALE_BITS) % 65536, 0)
                + madd_epi16(index_mul[2] % 65536, index_mul[2] \div 65536,
                             (ind[2] \div 2 ^ SCALE_BITS) % 65536, 0)
                + madd_epi16(index_mul[3] % 65536, index_mul[3] \div 65536,
                             (ind[3] \div 2 ^ SCALE_BITS) % 65536, 0) )

\* the two 16-bit halves of a lane of shift after lines 135-143:
\* low = (1<<SHIFT_BITS) - 1 - frac, high = frac
ShiftOf(ind_d) ==
    LET frac == (ind_d % (SCALE_MASK + 1)) \div 2 ^ (SCALE_BITS - SHIFT_BITS)
    IN  << (2 ^ SHIFT_BITS - 1) - frac, frac >>

\* ------------------------------------------------------------------------
\* The 3-channel path of the pixel loop (ColorLUT.c:149-186)

\* the index the loop body works on: the variable index, set before the
\* pixel loop (line 122) and read at lines 135-136
UsedIndexReloaded == [d \in 1 .. 3 |-> scale[d] * mem[inBuf][y + 1][1][d]]

UsedIndex == index

\* the flat offset the loop body gathers from: the variable idx (line 124),
\* read at lines 151-166
UsedIdx == idx

\* the low 16 bits of a lane after _mm_srai_epi32(m, SHIFT_BITS) & left_mask,
\* as the next _mm_madd_epi16 reads them
LeftHalf(m) == ToInt16(srai_epi32(m, SHIFT_BITS))

\* the high 16 bits of a lane after _mm_slli_epi32(m, 16 - SHIFT_BITS) &
\* right_mask, as the next _mm_madd_epi16 reads them
\* right_mask, as the next _mm_madd_epi16 reads them: bits 16..31 of the
\* shifted lane are bits SHIFT_BITS..SHIFT_BITS+15 of m
RightHalf(m) == ToInt16(srai_epi32(m, 16 - (16 - SHIFT_BITS)))

\* one 32-bit lane of source after _mm_shuffle_epi8(load(&table[off]),
\* shuffle_source), times shift1D: lane c holds table[off + c] in its low
\* half and table[off + 3 + c] in its high half, for c = 0, 1, 2; the lane
\* c = 3 is zeroed by the shuffle
Source1D(off, c, w) ==
    IF c = 3 THEN madd_epi16(0, 0, w[1], w[2])
    ELSE madd_epi16(TableAt(off + c), TableAt(off + 3 + c), w[1], w[2])

\* the value of lane c of result before packing (lines 150-182)
Lane3(ind, id, c) ==
    LET shift1D == ShiftOf(ind[1])
        shift2D == ShiftOf(ind[2])
        shift3D == ShiftOf(ind[3])
        leftleft == LeftHalf(Source1D(id, c, shift1D))
        leftright == RightHalf(Source1D(id + sizes[1] * 3, c, shift1D))
        rightleft == LeftHalf(Source1D(id + size1D_2D * 3, c, shift1D))
        rightright ==
            RightHalf(Source1D(id + size1D_2D * 3 + sizes[1] * 3, c, shift1D))
        left == LeftHalf(madd_epi16(leftleft, leftright, shift2D[1], shift2D[2]))
        right ==
            RightHalf(madd_epi16(rightleft, rightright, shift2D[1], shift2D[2]))
        res == madd_epi16(left, right, shift3D[1], shift3D[2])
    IN  srai_epi32(PRECISION_ROUNDING * 2 ^ SHIFT_BITS + res,
                   PRECISION_BITS + SHIFT_BITS)

\* the four bytes stored to rowOut[x] (lines 184-185)
Pixel3(ind, id) ==
    [c \in 1 .. PixelBytes |-> packus_epi16(packs_epi32(Lane3(ind, id, c - 1)))]

\* the elements one _mm_loadu_si128 at &table[off] loads
TableLoad(off) == { off + e : e \in 0 .. (VecBytes \div 2) - 1 }

\* the elements the four loads of the gather read (lines 151, 156, 161, 166)
Gather3(id) ==
    TableLoad(id) \cup TableLoad(id + sizes[1] * 3)
        \cup TableLoad(id + size1D_2D * 3)
        \cup TableLoad(id + size1D_2D * 3 + sizes[1] * 3)

\* ------------------------------------------------------------------------
\* The scalar helpers (ColorLUT.c:27-54) and the scalar pixel computation
\* they were written for (the disabled block of lines 188-205)

\* clip8_lookups of Imaging.h: saturation to 0..255
clip8_lookups(i) == Max(0, Min(255, i))

clip8(in) == clip8_lookups(srai_epi32(in + PRECISION_ROUNDING, PRECISION_BITS))

\* one channel of interpolate3 / interpolate4
interpolate(a, b, shift) ==
    ToInt16(srai_epi32(a * (2 ^ SHIFT_BITS - shift) + b * shift, SHIFT_BITS))

table_index3D(index1D, index2D, index3D, size1D, size1D2D) ==
    index1D + index2D * size1D + index3D * size1D2D

\* channel c (0-based) of the pixel the nested interpolate calls produce
ScalarChannel(pixel, c) ==
    LET n == table_channels
        ind == IndexOf(pixel)
        fr == [d \in 1 .. 3 |-> ShiftOf(ind[d])[2]]
        id == n * table_index3D(ind[1] \div 2 ^ SCALE_BITS,
                                ind[2] \div 2 ^ SCALE_BITS,
                                ind[3] \div 2 ^ SCALE_BITS, sizes[1], size1D_2D)
        leftleft == interpolate(TableAt(id + c), TableAt(id + n + c), fr[1])
        leftright == interpolate(TableAt(id + sizes[1] * n + c),
                                 TableAt(id + sizes[1] * n + n + c), fr[1])
        left == interpolate(leftleft, leftright, fr[2])
        rightleft == interpolate(TableAt(id + size1D_2D * n + c),
                                 TableAt(id + size1D_2D * n + n + c), fr[1])
        rightright ==
            interpolate(TableAt(id + size1D_2D * n + sizes[1] * n + c),
                        TableAt(id + size1D_2D * n + sizes[1] * n + n + c), fr[1])
        right == interpolate(rightleft, rightright, fr[2])
    IN  clip8(interpolate(left, right, fr[3]))

\* ------------------------------------------------------------------------
\* The images

Bufs == { "A", "B" }

xsizeOut == im[outBuf].xsize
ysizeOut == im[outBuf].ysize

\* the bytes of a row of imIn (linesize)
RowLen == PixelBytes * im[inBuf].xsize

\* the byte offsets a load of w bytes at &rowIn[4 * k] reads
RowLoad(k, w) == { PixelBytes * k + b : b \in 0 .. w - 1 }

\* what a build makes of *(__m128i *) &rowIn[..] under _mm_cvtepu8_epi32: a
\* full vector load, or a load of the four bytes that are converted
LoadWidths == { PixelBytes, VecBytes }

\* the values the four converted bytes of pixel k of row y can have: the
\* pixel when it is inside the row, anything when it is not
PixelRead(k) ==
    IF k < im[inBuf].xsize THEN { mem[inBuf][y + 1][k + 1] } ELSE PixelVals

\* the images of xs by ys pixels
Images(xs, ys) == [1 .. ys -> [1 .. xs -> PixelVals]]
Blank(xs, ys) == [r \in 1 .. ys |-> [k \in 1 .. xs |-> OutFill]]

\* ------------------------------------------------------------------------
\* Argument validation (ColorLUT.c:100-116)
InvalidChannels == table_channels < 3 \/ table_channels > 4

ModeMismatchNoExtraBand ==
    \/ im[inBuf].type # "UINT8"
    \/ im[outBuf].type # "UINT8"
    \/ im[inBuf].bands < 3
    \/ im[outBuf].bands < table_channels

ModeMismatch ==
    \/ im[inBuf].type # "UINT8"
    \/ im[outBuf].type # "UINT8"
    \/ im[inBuf].bands < 3
    \/ im[outBuf].bands < table_channels
    \/ (im[outBuf].bands > table_channels /\ im[outBuf].bands > im[inBuf].bands)

\* ------------------------------------------------------------------------
\* The initial states: the call is about to be made
InitCall ==
    /\ pc = "call"
    /\ result = "none"
    /\ section = "idle"
    /\ x = 0
    /\ y = 0
    /\ index = <<0, 0, 0>>
    /\ idx = 0
    /\ next_idx = 0
    /\ rowReads = {}
    /\ tableLoads = {}
    /\ mem0 = mem

Init ==
    /\ table_channels \in TableChannelVals
    /\ sizes \in GridSizes
    /\ tableKind \in { <<"identity">>, <<"invert">> }
    /\ \E aliased \in BOOLEAN, xs \in 0 .. MaxX, ys \in 0 .. MaxY,
          tin \in TypeVals, tout \in TypeVals, bin \in BandVals, bout \in BandVals :
          /\ aliased => (tin = tout /\ bin = bout)
          /\ inBuf = "A"
          /\ outBuf = IF aliased THEN "A" ELSE "B"
          /\ im = [b \in Bufs |->
                     IF b = "A" \/ aliased
                     THEN [type |-> tin, bands |-> bin, xsize |-> xs, ysize |-> ys]
                     ELSE [type |-> tout, bands |-> bout, xsize |-> xs, ysize |-> ys]]
          /\ \E data \in Images(xs, ys) :
                mem = [b \in Bufs |-> IF b = "A" THEN data ELSE Blank(xs, ys)]
    /\ InitCall

\* ------------------------------------------------------------------------
\* The steps of the call

\* lines 100-118: the checks, then ImagingSectionEnter
Validate ==
    /\ pc = "call"
    /\ IF InvalidChannels
       THEN /\ result' = "ValueError"
            /\ pc' = "done"
            /\ UNCHANGED section
       ELSE IF ModeMismatch
       THEN /\ result' = "ModeError"
            /\ pc' = "done"
            /\ UNCHANGED section
       ELSE /\ section' = "entered"
            /\ pc' = "row"
            /\ UNCHANGED result
    /\ UNCHANGED << table_channels, sizes, tableKind, inBuf, outBuf, im, mem, mem0,
                    x, y, index, idx, next_idx, rowReads, tableLoads >>

\* lines 119-128: a row begins; index and idx are computed from the row's
\* first pixel and x is set to 0
RowStart ==
    /\ pc = "row"
    /\ y < ysizeOut
    /\ \E w \in LoadWidths, pixel \in PixelRead(0) :
          /\ rowReads' = RowLoad(0, w)
          /\ index' = IndexOf(pixel)
          /\ idx' = IdxOf(IndexOf(pixel))
    /\ x' = 0
    /\ pc' = "pixel"
    /\ tableLoads' = {}
    /\ UNCHANGED << table_channels, sizes, tableKind, inBuf, outBuf, im, mem, mem0,
                    result, section, y, next_idx >>

\* lines 128-206: one iteration of the pixel loop
PixelStep ==
    /\ pc = "pixel"
    /\ x < xsizeOut
    /\ \E w \in LoadWidths, pixel \in PixelRead(x + 1) :
          /\ rowReads' = RowLoad(x + 1, w)
          /\ next_idx' = IdxOf(IndexOf(pixel))
    /\ IF table_channels = 3
       THEN /\ tableLoads' = Gather3(UsedIdx)
            /\ mem' = [mem EXCEPT ![outBuf][y + 1][x + 1] = Pixel3(UsedIndex, UsedIdx)]
       ELSE /\ tableLoads' = {}
            /\ UNCHANGED mem
    /\ x' = x + 1
    /\ UNCHANGED << table_channels, sizes, tableKind, inBuf, outBuf, im, mem0, pc,
                    result, section, y, index, idx >>

\* line 128 and line 119: the pixel loop ends, y++
RowEnd ==
    /\ pc = "pixel"
    /\ x >= xsizeOut
    /\ y' = y + 1
    /\ pc' = "row"
    /\ UNCHANGED << table_channels, sizes, tableKind, inBuf, outBuf, im, mem, mem0,
                    result, section, x, index, idx, next_idx, rowReads, tableLoads >>

\* lines 208-210: the row loop ends, ImagingSectionLeave, return imOut
Finish ==
    /\ pc = "row"
    /\ y >= ysizeOut
    /\ section' = "left"
    /\ result' = "imOut"
    /\ pc' = "done"
    /\ UNCHANGED << table_channels, sizes, tableKind, inBuf, outBuf, im, mem, mem0,
                    x, y, index, idx, next_idx, rowReads, tableLoads >>

\* the loads the next step would make
PendingRowReads ==
    IF pc = "row" /\ y < ysizeOut THEN RowLoad(0, VecBytes)
    ELSE IF pc = "pixel" /\ x < xsizeOut THEN RowLoad(x + 1, VecBytes)
    ELSE {}

PendingTableLoads ==
    IF pc = "pixel" /\ x < xsizeOut /\ table_channels = 3 THEN Gather3(UsedIdx) ELSE {}

\* a load outside the row or outside the table may hit unmapped memory: the
\* call does not return
Fault ==
    /\ \/ { o \in PendingRowReads : o >= RowLen } # {}
       \/ { o \in PendingTableLoads : o >= TableLen } # {}
    /\ rowReads' = PendingRowReads
    /\ tableLoads' = PendingTableLoads
    /\ pc' = "fault"
    /\ UNCHANGED << table_channels, sizes, tableKind, inBuf, outBuf, im, mem, mem0,
                    result, section, x, y, index, idx, next_idx >>

Next ==
    \/ Validate
    \/ RowStart
    \/ PixelStep
    \/ RowEnd
    \/ Finish
    \/ Fault

Spec == Init /\ [][Next]_vars

\* ------------------------------------------------------------------------
\* Specifications of the same call over other inputs

\* a valid call on separate 3-band images of one pixel
OnePixelCall(pixel) ==
    /\ table_channels = 3
    /\ inBuf = "A"
    /\ outBuf = "B"
    /\ im = [b \in Bufs |-> [type |-> "UINT8", bands |-> 3, xsize |-> 1, ysize |-> 1]]
    /\ mem = [b \in Bufs |-> IF b = "A" THEN << <<pixel>> >> ELSE Blank(1, 1)]
    /\ InitCall

\* every grid size and every channel value
InitScale ==
    /\ \E s \in AllSizes : sizes = <<s, s, s>>
    /\ tableKind = <<"identity">>
    /\ \E v \in Byte : OnePixelCall(<<v, v, v, 255>>)

SpecScale == InitScale /\ [][Next]_vars

\* a pixel on the grid node (0, 0, 0) of a table that holds t everywhere
InitCorner ==
    /\ \E s \in CornerSizes : sizes = <<s, s, s>>
    /\ \E t \in TableVals : tableKind = <<"flat", t>>
    /\ OnePixelCall(<<0, 0, 0, 255>>)

SpecCorner == InitCorner /\ [][Next]_vars

\* ------------------------------------------------------------------------
\* Properties

Returned == pc = "done" /\ result = "imOut"

Positions == { <<r, k>> : r \in 1 .. ysizeOut, k \in 1 .. xsizeOut }

In0(pos) == mem0[inBuf][pos[1]][pos[2]]
Out0(pos) == mem0[outBuf][pos[1]][pos[2]]
Out(pos) == mem[outBuf][pos[1]][pos[2]]

\* the 3-channel blend of the table at a pixel: lines 122-127 and 135-185
\* applied to that pixel
Lut3(pixel) == Pixel3(IndexOf(pixel), IdxOf(IndexOf(pixel)))

\* whether a pixel has fractional weight 0 on all three axes
OnNode(pixel) == \A d \in 1 .. 3 : ShiftOf(IndexOf(pixel)[d])[2] = 0

\* C1: after a successful 3-channel call the output pixel at (x, y) is the
\* blend of the table at the input pixel of the same coordinates, whatever
\* the other pixels of the row are: two rows that agree at x have the same
\* output at x, also when they differ at x = 0.
C1_OutputFromSamePixel ==
    (Returned /\ table_channels = 3) =>
        /\ \A pos \in Positions : Out(pos) = Lut3(In0(pos))
        /\ \A p \in Positions, q \in Positions :
              (p[2] = q[2] /\ In0(p) = In0(q)) => Out(p) = Out(q)

\* C2: with the 3-channel identity table every band 0..2 of every output
\* pixel is within 1 of the same band of the input pixel.
C2_IdentityReproduces ==
    (Returned /\ table_channels = 3 /\ tableKind = <<"identity">>) =>
        \A pos \in Positions : \A c \in 1 .. 3 :
            /\ Out(pos)[c] - In0(pos)[c] <= 1
            /\ In0(pos)[c] - Out(pos)[c] <= 1

\* C3: a pixel with fractional weight 0 on all three axes gets, in each
\* channel, exactly the value stored at its base grid node, rounded and
\* clipped to 8 bits.
C3_GridCornerExact ==
    (Returned /\ table_channels = 3) =>
        \A pos \in Positions : OnNode(In0(pos)) =>
            \A c \in 1 .. 3 :
                Out(pos)[c] = clip8(TableAt(IdxOf(IndexOf(In0(pos))) + c - 1))

\* C4: the base grid index of every axis is at most size - 2, so the +1
\* neighbour is a cell of the table.
C4_BaseIndexBelowLast ==
    pc = "pixel" =>
        \A d \in 1 .. 3 : index[d] \div 2 ^ SCALE_BITS <= sizes[d] - 2

C4_Witness ==
    /\ pc = "pixel"
    /\ sizes[1] = MaxSize
    /\ mem0[inBuf][1][1][1] = 255
    /\ index[1] \div 2 ^ SCALE_BITS = MaxSize - 2
    /\ x = 1

\* the pixel a call is to produce at a position: the blend of the table at
\* the input pixel there, the 4-channel one by the scalar helpers
Blend(pixel, c) ==
    IF table_channels = 3 THEN Lut3(pixel)[c] ELSE ScalarChannel(pixel, c - 1)

\* C5: when the call returns imOut, the first table_channels bands of every
\* output pixel hold the blend of the table at the input pixel of that
\* position, for 4 channels as for 3.
C5_SuccessWritesEveryPixel ==
    Returned =>
        \A pos \in Positions : \A c \in 1 .. table_channels :
            Out(pos)[c] = Blend(In0(pos), c)

\* C6: with a 3-channel table and a 4-band output the 4th band of every
\* output pixel is what it was before the call.
C6_FourthBandUntouched ==
    (Returned /\ table_channels = 3 /\ im[outBuf].bands = 4) =>
        \A pos \in Positions : Out(pos)[4] = Out0(pos)[4]

\* the outcome of the checks as the claim words it
ClaimedOutcome ==
    IF table_channels \notin {3, 4} THEN "ValueError"
    ELSE IF \/ im[inBuf].type # "UINT8"
            \/ im[outBuf].type # "UINT8"
            \/ im[inBuf].bands < 3
            \/ im[outBuf].bands < table_channels
            \/ (im[outBuf].bands > table_channels
                    /\ im[outBuf].bands > im[inBuf].bands)
    THEN "ModeError"
    ELSE "imOut"

\* C7: a call that returns returns the claimed outcome; pixel work (the
\* section entered, a row read, a pixel written) is done only by a call
\* whose outcome is success; a call that fails has modified no pixel and
\* never entered the section.
C7_ValidationOutcome ==
    /\ pc = "done" => result = ClaimedOutcome
    /\ pc \in {"row", "pixel", "fault"} => ClaimedOutcome = "imOut"
    /\ ClaimedOutcome # "imOut" =>
            /\ mem = mem0
            /\ section = "idle"
            /\ rowReads = {}
            /\ tableLoads = {}

C7_Witness ==
    /\ pc = "done"
    /\ result = "ModeError"
    /\ table_channels = 3
    /\ im[inBuf].type = "UINT8"
    /\ im[outBuf].type = "UINT8"
    /\ im[inBuf].bands = 3
    /\ im[outBuf].bands = 4
    /\ xsizeOut > 0
    /\ ysizeOut > 0

\* the bytes of a pixel the call stores: rowOut[x] is stored whole by the
\* 3-channel path, and nothing is stored otherwise
StoredBytes == IF table_channels = 3 THEN 1 .. PixelBytes ELSE {}

\* the pixel the call leaves at a position of a separate output buffer: the
\* blend computed from index and idx, which every iteration of the pixel
\* loop takes from the row's first input pixel
SeparateOut(pos) == Lut3(mem0[inBuf][pos[1]][1])

\* C8: a call with the output aliased to the input leaves, in the bytes it
\* stores, what the call with a separate output buffer leaves, and reads no
\* input pixel of the current row below x, the pixels already overwritten.
C8_InPlaceSameAsSeparate ==
    /\ Returned =>
          \A pos \in Positions : \A c \in StoredBytes :
              Out(pos)[c] = SeparateOut(pos)[c]
    /\ pc = "pixel" => \A o \in rowReads : o \div PixelBytes >= x

C8_Witness ==
    /\ Returned
    /\ inBuf = outBuf
    /\ table_channels = 3
    /\ xsizeOut = 2
    /\ ysizeOut = 2
    /\ \A pos \in Positions : Out(pos) # In0(pos)

\* C9: every element loaded from the table lies inside the table.
C9_TableLoadsInBounds ==
    \A o \in tableLoads : 0 <= o /\ o < TableLen

\* C10: every byte read from the input row lies inside the row.
C10_RowReadsInBounds ==
    \A o \in rowReads : 0 <= o /\ o < RowLen

====
